---- MODULE Spec2Model ----
(***************************************************************************)
(* Multi-hop RAG pipeline of agent.py: normalize_query,                    *)
(* generate_multi_hop_queries and get_agent_response.                      *)
(*                                                                         *)
(* Strings are sequences of one-character strings, so that lower(),        *)
(* substring tests, split(","), strip() and join() are computed as Python  *)
(* computes them.  The fixed prompt templates are kept as single tokens.   *)
(* Scores are written in tenths (9 stands for 0.9); float() of a number    *)
(* keeps its value and its order.  The Bedrock retriever sets a numeric    *)
(* score on every node, so float(None) and NaN do not occur.               *)
(* A failing external call raises an Exception (what `except Exception`    *)
(* of generate_multi_hop_queries catches).                                 *)
(* chat_history is a parameter that get_agent_response never reads.        *)
(***************************************************************************)
EXTENDS Integers, Sequences, FiniteSets, TLC

VARIABLES
    pc,                 \* per turn: position of the coroutine
    message,            \* per turn: argument `message`
    normalized_query,   \* per turn: local normalized_query
    all_queries,        \* per turn: local all_queries
    query_idx,          \* per turn: last hop index processed by the loop
    all_context_chunks, \* per turn: local dict, as its entries in insertion order
    context,            \* per turn: local context
    user_prompt,        \* per turn: local user_prompt
    final_answer,       \* per turn: value returned
    error,              \* per turn: exception that left get_agent_response
    calls,              \* per turn: external calls made so far, in order
    retrieved,          \* per turn: what retriever.retrieve returned, per hop
    generated,          \* per turn: the text the model answered the multi-hop prompt with
    failed,             \* per turn: the external calls that raised
    running,            \* the coroutine the event loop is executing
    hashfn              \* str hash of this process (randomised per process)

vars == <<pc, message, normalized_query, all_queries, query_idx,
          all_context_chunks, context, user_prompt, final_answer, error,
          calls, retrieved, generated, failed, running, hashfn>>

-----------------------------------------------------------------------------
(* Bounds and input pools *)

MaxLen == 3

Turns == {"t1", "t2"}

None == "None"

NormAlphabet == {"m", "e", "d", " ", "M"}

RECURSIVE StringsUpTo(_, _)
StringsUpTo(alphabet, n) ==
    IF n = 0 THEN {<<>>}
    ELSE LET shorter == StringsUpTo(alphabet, n - 1)
         IN  shorter \cup {Append(s, c) : s \in shorter, c \in alphabet}

LongQueries ==
    { <<"f","a","t","t","y"," ","l","i","v","e","r"," ","k","a","i","s","e"," ","t","h","i","k"," ","k","a","r","e">>,
      <<"F","a","t","t","y"," ","L","i","v","e","r"," ","m","e">>,
      <<"v","i","t","a","m","i","n"," ","c">>,
      <<"k","y","a"," ","h","a","i">>,
      <<"m","e","d","i","c","i","n","e">> }

NormInputs == StringsUpTo(NormAlphabet, MaxLen) \cup LongQueries

Messages ==
    { <<"m","e">>,
      <<"F","a","t","t","y"," ","L","i","v","e","r"," ","m","e">> }

ConcMessages == { <<"m","e">>, <<"x">> }

\* texts the model may answer the multi-hop prompt with
GenTexts ==
    { <<>>,
      <<"a">>,
      <<" ","b"," ",","," ","a">> }

ConcGenTexts == { <<"a">> }

TextList == << <<"a">>, <<"b">>, <<"c">> >>

Texts == {TextList[i] : i \in 1..Len(TextList)}

HashValues == 1..Len(TextList)

Node(text, score, metadata) ==
    [text |-> text, score |-> score, metadata |-> metadata]

Nodes ==
    { Node(<<"a">>, 9, "m1"), Node(<<"a">>, 5, "m2"),
      Node(<<"b">>, 5, "m1"), Node(<<"c">>, 7, "m1") }

ConcNodes == { Node(<<"a">>, 9, "m1"), Node(<<"b">>, 5, "m1") }

Answers == {"answer"}

-----------------------------------------------------------------------------
(* Python string operations *)

UpperLetters ==
    <<"A","B","C","D","E","F","G","H","I","J","K","L","M",
      "N","O","P","Q","R","S","T","U","V","W","X","Y","Z">>

LowerLetters ==
    <<"a","b","c","d","e","f","g","h","i","j","k","l","m",
      "n","o","p","q","r","s","t","u","v","w","x","y","z">>

lower(s) ==
    [i \in 1..Len(s) |->
        IF \E j \in 1..Len(UpperLetters) : UpperLetters[j] = s[i]
        THEN LowerLetters[CHOOSE j \in 1..Len(UpperLetters) : UpperLetters[j] = s[i]]
        ELSE s[i]]

\* Python's `w in q` for strings: w occurs in q as a substring
Contains(q, w) ==
    \E i \in 1..(Len(q) - Len(w) + 1) : SubSeq(q, i, i + Len(w) - 1) = w

Whitespace == {" ", "\n", "\t"}

RECURSIVE strip(_)
strip(s) ==
    IF s = <<>> THEN s
    ELSE IF s[1] \in Whitespace THEN strip(Tail(s))
    ELSE IF s[Len(s)] \in Whitespace THEN strip(SubSeq(s, 1, Len(s) - 1))
    ELSE s

RECURSIVE split(_, _)
split(s, sep) ==
    IF \A i \in 1..Len(s) : s[i] # sep THEN <<s>>
    ELSE LET i == CHOOSE k \in 1..Len(s) :
                      s[k] = sep /\ \A j \in 1..(k - 1) : s[j] # sep
         IN  <<SubSeq(s, 1, i - 1)>> \o split(SubSeq(s, i + 1, Len(s)), sep)

RECURSIVE join(_, _)
join(sep, parts) ==
    IF parts = <<>> THEN <<>>
    ELSE IF Len(parts) = 1 THEN parts[1]
    ELSE parts[1] \o sep \o join(sep, Tail(parts))

-----------------------------------------------------------------------------
(* normalize_query *)

FattyLiver == <<"f","a","t","t","y"," ","l","i","v","e","r">>

LiverQuery ==
    <<"f","a","t","t","y"," ","l","i","v","e","r"," ","t","r","e","a","t","m","e","n","t"," ","l","i","v","e","r"," ","d","e","t","o","x"," ","s","u","p","p","l","e","m","e","n","t"," ","l","i","v","e","r"," ","h","e","a","l","t","h"," ","a","y","u","r","v","e","d","i","c"," ","l","i","v","e","r"," ","s","u","p","p","o","r","t">>

MarkerWords ==
    { <<"k","y","a">>, <<"k","a","i","s","e">>, <<"m","e">>,
      <<"h","a","i">>, <<"d","e">> }

RecommendationPrefix ==
    <<"h","e","a","l","t","h"," ","p","r","o","d","u","c","t"," ","r","e","c","o","m","m","e","n","d","a","t","i","o","n"," ">>

normalize_query(query) ==
    LET q == lower(query)
    IN  IF Contains(q, FattyLiver) THEN LiverQuery
        ELSE IF \E word \in MarkerWords : Contains(q, word)
             THEN RecommendationPrefix \o query
             ELSE query

-----------------------------------------------------------------------------
(* generate_multi_hop_queries *)

multi_hop_prompt(original_query) ==
    <<"Given this user query, generate 2-3 related search queries that would help find comprehensive information.\n\nOriginal Query: \"">>
    \o original_query
    \o <<"\"\n\nReturn ONLY the queries as a comma-separated list, no explanations.\nExample: \"query1, query2, query3\"\n">>

\* variant: the related queries are asked for the rewritten query
GenerationArgumentNormalized(t) == normalize_query(message[t])

\* the message generate_multi_hop_queries is called with
GenerationArgument(t) == message[t]

ParseQueries(generated_queries_text) ==
    LET pieces == split(generated_queries_text, ",")
    IN  [i \in 1..Len(pieces) |-> strip(pieces[i])]

\* variant: the except branch falls back to the original query as a hop
QueriesOnGenerationErrorFallback(original_query) == <<original_query>>

\* the except branch: return []
QueriesOnGenerationError(original_query) == <<>>

-----------------------------------------------------------------------------
(* aggregation of one hop into all_context_chunks *)

hash(text) == hashfn[text]

HasKey(chunks, key) == \E i \in 1..Len(chunks) : chunks[i].key = key

AddNode(chunks, node, hop) ==
    LET text_key == hash(node.text)
    IN  IF ~HasKey(chunks, text_key)
        THEN Append(chunks, [key      |-> text_key,
                             text     |-> node.text,
                             score    |-> node.score,
                             metadata |-> node.metadata,
                             sources  |-> <<hop>>])
        ELSE [i \in 1..Len(chunks) |->
                 IF chunks[i].key = text_key
                 THEN [chunks[i] EXCEPT !.sources = Append(@, hop)]
                 ELSE chunks[i]]

RECURSIVE AddNodes(_, _, _)
AddNodes(chunks, nodes, hop) ==
    IF nodes = <<>> THEN chunks
    ELSE AddNodes(AddNode(chunks, nodes[1], hop), Tail(nodes), hop)

\* variant: the dict is one module-level object that every turn writes to
NewChunkMapShared(t) == all_context_chunks[CHOOSE u \in Turns : u # t]

\* all_context_chunks = {}
NewChunkMap(t) == <<>>

-----------------------------------------------------------------------------
(* sorted(..., key=score, reverse=True), context and prompts *)

\* variant: an ascending sort that is then reversed; equal scores swap
InsertByScoreTiesReversed(sorted, e) ==
    LET n == Cardinality({i \in 1..Len(sorted) : sorted[i].score > e.score})
    IN  SubSeq(sorted, 1, n) \o <<e>> \o SubSeq(sorted, n + 1, Len(sorted))

\* position of e in a list already sorted by descending score: behind every
\* element whose score is not smaller (the sort is stable)
InsertByScore(sorted, e) ==
    LET n == Cardinality({i \in 1..Len(sorted) : sorted[i].score >= e.score})
    IN  SubSeq(sorted, 1, n) \o <<e>> \o SubSeq(sorted, n + 1, Len(sorted))

RECURSIVE SortedChunks(_)
SortedChunks(chunks) ==
    IF chunks = <<>> THEN <<>>
    ELSE InsertByScore(SortedChunks(SubSeq(chunks, 1, Len(chunks) - 1)),
                       chunks[Len(chunks)])

ChunkSeparator == <<"\n","\n","-","-","-","-","-","-","\n","\n">>

\* variant: the placeholder of the log line is sent instead of ""
ContextOrPlaceholder(chunks) ==
    IF chunks = <<>> THEN <<"NO CONTEXT RETRIEVED">>
    ELSE LET sorted_chunks == SortedChunks(chunks)
         IN  join(ChunkSeparator,
                  [i \in 1..Len(sorted_chunks) |-> sorted_chunks[i].text])

ContextOf(chunks) ==
    LET sorted_chunks == SortedChunks(chunks)
        context_chunks == [i \in 1..Len(sorted_chunks) |-> sorted_chunks[i].text]
    IN  join(ChunkSeparator, context_chunks)

system_prompt ==
    "You are a medical product assistant.\nAnswer ONLY using the provided knowledge base context.\nIf context is empty, say you don't have data.\nUser may speak Hindi, Hinglish, or English.\nRespond in user's language."

UserPrompt(msg, ctx) ==
    <<"\nUSER QUESTION:\n">> \o msg
    \o <<"\n\nKNOWLEDGE BASE CONTEXT (Retrieved from multiple query angles):\n">>
    \o ctx
    \o <<"\n\nINSTRUCTION:\nAnswer strictly based on the context above. Do not hallucinate.\nProvide comprehensive answer using information from multiple sources if available.\n">>

-----------------------------------------------------------------------------
(* external calls, as recorded in calls *)

GenerateCall(prompt) == [kind |-> "generate", arg |-> prompt]
RetrieveCall(query)  == [kind |-> "retrieve", arg |-> query]
SynthesisCall(sys, usr) == [kind |-> "synthesis", arg |-> <<sys>> \o usr]

-----------------------------------------------------------------------------
(* get_agent_response, one action per stretch between suspension points;   *)
(* the retrieval loop advances one hop per action.  retriever.retrieve is  *)
(* a blocking call, so the event loop stays with the turn (running) from   *)
(* the return of the generation call to the synthesis await.               *)

\* call up to the await inside generate_multi_hop_queries
StartTurn(t) ==
    /\ pc[t] = "called"
    /\ running = None
    /\ normalized_query' = [normalized_query EXCEPT ![t] = normalize_query(message[t])]
    /\ all_queries' = [all_queries EXCEPT ![t] = <<normalize_query(message[t])>>]
    /\ calls' = [calls EXCEPT ![t] =
                    Append(@, GenerateCall(multi_hop_prompt(GenerationArgument(t))))]
    /\ pc' = [pc EXCEPT ![t] = "await_generate"]
    /\ UNCHANGED <<message, query_idx, all_context_chunks, context, user_prompt,
                   final_answer, error, retrieved, running, generated, failed, hashfn>>

\* llm.achat answered: parse, extend the query set, enter the loop
GenerateReturns(t, text) ==
    /\ pc[t] = "await_generate"
    /\ running = None
    /\ generated' = [generated EXCEPT ![t] = <<text>>]
    /\ all_queries' = [all_queries EXCEPT ![t] = @ \o ParseQueries(text)]
    /\ all_context_chunks' = [all_context_chunks EXCEPT ![t] = NewChunkMap(t)]
    /\ query_idx' = [query_idx EXCEPT ![t] = 0]
    /\ pc' = [pc EXCEPT ![t] = "retrieving"]
    /\ running' = t
    /\ UNCHANGED <<message, normalized_query, context, user_prompt, final_answer,
                   error, calls, retrieved, failed, hashfn>>

\* llm.achat (or the parsing of its answer) raised an Exception
GenerateFails(t) ==
    /\ pc[t] = "await_generate"
    /\ running = None
    /\ failed' = [failed EXCEPT ![t] = @ \cup {"generate"}]
    /\ all_queries' = [all_queries EXCEPT ![t] = @ \o QueriesOnGenerationError(message[t])]
    /\ all_context_chunks' = [all_context_chunks EXCEPT ![t] = NewChunkMap(t)]
    /\ query_idx' = [query_idx EXCEPT ![t] = 0]
    /\ pc' = [pc EXCEPT ![t] = "retrieving"]
    /\ running' = t
    /\ UNCHANGED <<message, normalized_query, context, user_prompt, final_answer,
                   error, calls, retrieved, generated, hashfn>>

\* one iteration of the hop loop: retrieve, then fold every node in
RetrieveHop(t, nodes) ==
    /\ pc[t] = "retrieving"
    /\ running = t
    /\ query_idx[t] < Len(all_queries[t])
    /\ LET hop == query_idx[t] + 1
       IN  /\ calls' = [calls EXCEPT ![t] = Append(@, RetrieveCall(all_queries[t][hop]))]
           /\ retrieved' = [retrieved EXCEPT ![t] = Append(@, nodes)]
           /\ all_context_chunks' = [all_context_chunks EXCEPT ![t] = AddNodes(@, nodes, hop)]
           /\ query_idx' = [query_idx EXCEPT ![t] = hop]
    /\ UNCHANGED <<pc, message, normalized_query, all_queries, context, user_prompt,
                   final_answer, error, running, generated, failed, hashfn>>

\* variant: a failed hop is dropped and the loop goes on
RetrieveFailsDropsHop(t) ==
    /\ pc[t] = "retrieving"
    /\ running = t
    /\ query_idx[t] < Len(all_queries[t])
    /\ calls' = [calls EXCEPT ![t] =
                    Append(@, RetrieveCall(all_queries[t][query_idx[t] + 1]))]
    /\ failed' = [failed EXCEPT ![t] = @ \cup {"retrieve"}]
    /\ query_idx' = [query_idx EXCEPT ![t] = @ + 1]
    /\ UNCHANGED <<pc, message, normalized_query, all_queries,
                   all_context_chunks, context, user_prompt, final_answer,
                   error, retrieved, generated, running, hashfn>>

\* retriever.retrieve raised: nothing catches it
RetrieveFails(t) ==
    /\ pc[t] = "retrieving"
    /\ running = t
    /\ query_idx[t] < Len(all_queries[t])
    /\ calls' = [calls EXCEPT ![t] =
                    Append(@, RetrieveCall(all_queries[t][query_idx[t] + 1]))]
    /\ failed' = [failed EXCEPT ![t] = @ \cup {"retrieve"}]
    /\ pc' = [pc EXCEPT ![t] = "raised"]
    /\ error' = [error EXCEPT ![t] = "retrieval"]
    /\ running' = None
    /\ UNCHANGED <<message, normalized_query, all_queries, query_idx,
                   all_context_chunks, context, user_prompt, final_answer,
                   retrieved, generated, hashfn>>

\* loop exhausted: sort, join, build the prompts, await the synthesis call
BuildPrompt(t) ==
    /\ pc[t] = "retrieving"
    /\ running = t
    /\ query_idx[t] = Len(all_queries[t])
    /\ context' = [context EXCEPT ![t] = ContextOf(all_context_chunks[t])]
    /\ user_prompt' = [user_prompt EXCEPT ![t] =
                          UserPrompt(message[t], ContextOf(all_context_chunks[t]))]
    /\ calls' = [calls EXCEPT ![t] =
                    Append(@, SynthesisCall(system_prompt,
                               UserPrompt(message[t], ContextOf(all_context_chunks[t]))))]
    /\ pc' = [pc EXCEPT ![t] = "await_synthesis"]
    /\ running' = None
    /\ UNCHANGED <<message, normalized_query, all_queries, query_idx,
                   all_context_chunks, final_answer, error, retrieved, generated, failed, hashfn>>

SynthesisReturns(t, answer) ==
    /\ pc[t] = "await_synthesis"
    /\ running = None
    /\ final_answer' = [final_answer EXCEPT ![t] = answer]
    /\ pc' = [pc EXCEPT ![t] = "returned"]
    /\ UNCHANGED <<message, normalized_query, all_queries, query_idx,
                   all_context_chunks, context, user_prompt, error, calls,
                   retrieved, running, generated, failed, hashfn>>

SynthesisFails(t) ==
    /\ pc[t] = "await_synthesis"
    /\ running = None
    /\ failed' = [failed EXCEPT ![t] = @ \cup {"synthesis"}]
    /\ pc' = [pc EXCEPT ![t] = "raised"]
    /\ error' = [error EXCEPT ![t] = "synthesis"]
    /\ UNCHANGED <<message, normalized_query, all_queries, query_idx,
                   all_context_chunks, context, user_prompt, final_answer, calls,
                   retrieved, running, generated, hashfn>>

-----------------------------------------------------------------------------
(* specifications *)

\* what retriever.retrieve may return: at most numberOfResults nodes
NumberOfResults == 2

ResultLists(nodes) ==
    UNION {[1..n -> nodes] : n \in 0..NumberOfResults}

\* one hash function per way the texts can share hash values; the dict
\* depends on which texts collide, not on the values
HashFunctions ==
    {h \in [Texts -> HashValues] :
        \A i \in 1..Len(TextList) :
            \/ h[TextList[i]] = 1
            \/ \E j \in 1..(i - 1) : h[TextList[i]] <= h[TextList[j]] + 1}

InitWith(active, inputs) ==
    /\ message \in {m \in [Turns -> inputs \cup {<<>>}] :
                      \A t \in Turns : IF t \in active THEN m[t] \in inputs
                                                         ELSE m[t] = <<>>}
    /\ pc = [t \in Turns |-> IF t \in active THEN "called" ELSE "idle"]
    /\ normalized_query = [t \in Turns |-> <<>>]
    /\ all_queries = [t \in Turns |-> <<>>]
    /\ query_idx = [t \in Turns |-> 0]
    /\ all_context_chunks = [t \in Turns |-> <<>>]
    /\ context = [t \in Turns |-> <<>>]
    /\ user_prompt = [t \in Turns |-> <<>>]
    /\ final_answer = [t \in Turns |-> None]
    /\ error = [t \in Turns |-> None]
    /\ calls = [t \in Turns |-> <<>>]
    /\ retrieved = [t \in Turns |-> <<>>]
    /\ generated = [t \in Turns |-> <<>>]
    /\ failed = [t \in Turns |-> {}]
    /\ running = None
    /\ hashfn \in HashFunctions

Init == InitWith({"t1"}, Messages)

Next ==
    \E t \in Turns :
        \/ StartTurn(t)
        \/ \E text \in GenTexts : GenerateReturns(t, text)
        \/ GenerateFails(t)
        \/ \E nodes \in ResultLists(Nodes) : RetrieveHop(t, nodes)
        \/ RetrieveFails(t)
        \/ BuildPrompt(t)
        \/ \E answer \in Answers : SynthesisReturns(t, answer)
        \/ SynthesisFails(t)

Spec == Init /\ [][Next]_vars

\* normalize_query alone, over every short string
NormInit == InitWith({"t1"}, NormInputs)

NormNext == \E t \in Turns : StartTurn(t)

NormSpec == NormInit /\ [][NormNext]_vars

\* two turns on one event loop
ConcInit == InitWith(Turns, ConcMessages)

ConcNext ==
    \E t \in Turns :
        \/ StartTurn(t)
        \/ \E text \in ConcGenTexts : GenerateReturns(t, text)
        \/ GenerateFails(t)
        \/ \E nodes \in ResultLists(ConcNodes) : RetrieveHop(t, nodes)
        \/ RetrieveFails(t)
        \/ BuildPrompt(t)
        \/ \E answer \in Answers : SynthesisReturns(t, answer)
        \/ SynthesisFails(t)

ConcSpec == ConcInit /\ [][ConcNext]_vars

-----------------------------------------------------------------------------
(* vocabulary of the properties *)

Range(seq) == {seq[i] : i \in 1..Len(seq)}

CallsOfKind(t, kind) == {i \in 1..Len(calls[t]) : calls[t][i].kind = kind}

\* the synthesis call has been issued
Prompted(t) == CallsOfKind(t, "synthesis") # {}

\* the generation call is over
PastGeneration(t) ==
    pc[t] \in {"retrieving", "await_synthesis", "returned", "raised"}

\* hops whose result list held the text
HopsReturning(t, text) ==
    {k \in 1..Len(retrieved[t]) :
        \E i \in 1..Len(retrieved[t][k]) : retrieved[t][k][i].text = text}

EntriesFor(t, text) ==
    {i \in 1..Len(all_context_chunks[t]) : all_context_chunks[t][i].text = text}

Least(S) == CHOOSE x \in S : \A y \in S : x <= y

\* the first node with the text that the retriever returned in the turn
FirstNode(t, text) ==
    LET nodes == retrieved[t][Least(HopsReturning(t, text))]
    IN  nodes[Least({i \in 1..Len(nodes) : nodes[i].text = text})]

RetrievedTexts(t) == {text \in Texts : HopsReturning(t, text) # {}}

-----------------------------------------------------------------------------
(* C1: a text returned under two different hops is stored once; the entry's *)
(* sources hold both hops and its score and metadata are those of the      *)
(* first hop that returned it.                                             *)
C1_SameTextStoredOnce ==
    \A t \in Turns : \A text \in Texts :
        Cardinality(HopsReturning(t, text)) >= 2 =>
            /\ Cardinality(EntriesFor(t, text)) = 1
            /\ \A i \in EntriesFor(t, text) :
                LET entry == all_context_chunks[t][i]
                IN  /\ HopsReturning(t, text) \subseteq Range(entry.sources)
                    /\ entry.score = FirstNode(t, text).score
                    /\ entry.metadata = FirstNode(t, text).metadata

(* C2: the context lists the stored chunks by descending stored score, and *)
(* chunks of equal score in the order of their first insertion.            *)
RankedOrders(chunks) ==
    {p \in [1..Len(chunks) -> 1..Len(chunks)] :
        \A i, j \in 1..Len(chunks) :
            i < j => \/ chunks[p[i]].score > chunks[p[j]].score
                     \/ /\ chunks[p[i]].score = chunks[p[j]].score
                        /\ p[i] < p[j]}

C2_ContextRankedByScore ==
    \A t \in Turns :
        Prompted(t) =>
            \E p \in RankedOrders(all_context_chunks[t]) :
                context[t] =
                    join(ChunkSeparator,
                         [i \in 1..Len(all_context_chunks[t]) |->
                             all_context_chunks[t][p[i]].text])

C2_Witness ==
    \E t \in Turns :
        /\ Prompted(t)
        /\ [i \in 1..Len(all_context_chunks[t]) |-> all_context_chunks[t][i].score]
               = <<9, 5, 7>>
        /\ context[t] = <<"a">> \o ChunkSeparator \o <<"c">> \o ChunkSeparator \o <<"b">>

(* C3: when the generation call raises, the turn goes on with the          *)
(* normalized query as its only hop: one retriever call, with that query,  *)
(* and the turn ends with a reply unless another external call fails.      *)
C3_GenerationFailureSingleHop ==
    \A t \in Turns :
        "generate" \in failed[t] =>
            /\ pc[t] \in {"retrieving", "await_synthesis", "returned", "raised"}
            /\ pc[t] = "raised" => failed[t] # {"generate"}
            /\ all_queries[t] = <<normalize_query(message[t])>>
            /\ Cardinality(CallsOfKind(t, "retrieve")) <= 1
            /\ \A i \in CallsOfKind(t, "retrieve") :
                   calls[t][i].arg = normalize_query(message[t])
            /\ Prompted(t) => Cardinality(CallsOfKind(t, "retrieve")) = 1
            /\ pc[t] = "returned" => final_answer[t] \in Answers

C3_Witness ==
    \E t \in Turns :
        /\ "generate" \in failed[t]
        /\ pc[t] = "returned"
        /\ normalized_query[t] # message[t]

(* C4: a failing retriever call ends the turn with that failure: no later  *)
(* hop, no synthesis call, no reply; a failing synthesis call ends the     *)
(* turn with that failure and no reply.                                    *)
C4_OtherFailuresPropagate ==
    \A t \in Turns :
        /\ "retrieve" \in failed[t] =>
              /\ pc[t] = "raised"
              /\ error[t] = "retrieval"
              /\ final_answer[t] = None
              /\ ~Prompted(t)
              /\ Cardinality(CallsOfKind(t, "retrieve")) = Len(retrieved[t]) + 1
              /\ calls[t][Len(calls[t])].kind = "retrieve"
        /\ "synthesis" \in failed[t] =>
              /\ pc[t] = "raised"
              /\ error[t] = "synthesis"
              /\ final_answer[t] = None

C4_Witness ==
    \E t \in Turns :
        /\ "retrieve" \in failed[t]
        /\ Len(retrieved[t]) = 1
        /\ Len(all_queries[t]) = 3
        /\ all_context_chunks[t] # <<>>

(* C5: when every hop returns no chunk the dict is empty, the context in   *)
(* the user prompt is the empty string, and the model is still called      *)
(* exactly once for synthesis and its text returned.                       *)
C5_EmptyRetrievalEmptyContext ==
    \A t \in Turns :
        (Prompted(t) /\ \A k \in 1..Len(retrieved[t]) : retrieved[t][k] = <<>>) =>
            /\ all_context_chunks[t] = <<>>
            /\ context[t] = <<>>
            /\ user_prompt[t] = UserPrompt(message[t], <<>>)
            /\ Cardinality(CallsOfKind(t, "synthesis")) = 1
            /\ \A i \in CallsOfKind(t, "synthesis") :
                   calls[t][i] = SynthesisCall(system_prompt, UserPrompt(message[t], <<>>))
            /\ pc[t] = "returned" => final_answer[t] \in Answers

C5_Witness ==
    \E t \in Turns :
        /\ pc[t] = "returned"
        /\ Len(retrieved[t]) = 3
        /\ \A k \in 1..Len(retrieved[t]) : retrieved[t][k] = <<>>

(* C6: normalize_query is the reference function: the liver query when     *)
(* "fatty liver" occurs in any case; else the prefixed query when a marker *)
(* token is a word of the query; else the query itself.                    *)
IsWordOf(q, w) ==
    \E i \in 1..(Len(q) - Len(w) + 1) :
        /\ SubSeq(q, i, i + Len(w) - 1) = w
        /\ i = 1 \/ q[i - 1] \in Whitespace
        /\ i + Len(w) - 1 = Len(q) \/ q[i + Len(w)] \in Whitespace

ReferenceNormalize(query) ==
    IF Contains(lower(query), FattyLiver) THEN LiverQuery
    ELSE IF \E w \in MarkerWords : IsWordOf(lower(query), w)
         THEN RecommendationPrefix \o query
         ELSE query

C6_NormalizeIsReference ==
    \A t \in Turns :
        pc[t] = "await_generate" =>
            normalized_query[t] = ReferenceNormalize(message[t])

(* C7: the external calls of a turn are one generation call on the raw     *)
(* message, then one retriever call per query in hop order, the normalized *)
(* query first and the generated ones in the model's order, then one       *)
(* synthesis call; there is at least one query.                            *)
C7_CallOrder ==
    \A t \in Turns :
        /\ pc[t] \in {"idle", "called"} => calls[t] = <<>>
        /\ pc[t] \notin {"idle", "called"} =>
              /\ calls[t][1] = GenerateCall(multi_hop_prompt(message[t]))
              /\ Len(all_queries[t]) >= 1
              /\ all_queries[t][1] = normalize_query(message[t])
              /\ \A i \in 2..Len(calls[t]) :
                    \/ /\ i - 1 <= Len(all_queries[t])
                       /\ calls[t][i] = RetrieveCall(all_queries[t][i - 1])
                    \/ /\ i = Len(all_queries[t]) + 2
                       /\ calls[t][i] = SynthesisCall(system_prompt, user_prompt[t])
        /\ pc[t] = "await_generate" => Len(calls[t]) = 1
        /\ generated[t] # <<>> =>
              all_queries[t] = <<normalize_query(message[t])>> \o ParseQueries(generated[t][1])
        /\ Prompted(t) => Len(calls[t]) = Len(all_queries[t]) + 2

C7_Witness ==
    \E t \in Turns :
        /\ pc[t] = "returned"
        /\ message[t] # normalized_query[t]
        /\ all_queries[t] = <<normalized_query[t], <<"b">>, <<"a">> >>
        /\ Len(calls[t]) = 5

(* C8: the dict has exactly one entry per distinct retrieved text: texts   *)
(* that differ are never merged and none is dropped.                       *)
C8_OneEntryPerText ==
    \A t \in Turns :
        /\ \A text \in RetrievedTexts(t) : Cardinality(EntriesFor(t, text)) = 1
        /\ Len(all_context_chunks[t]) = Cardinality(RetrievedTexts(t))

(* C9: the sources of every entry are strictly ascending hop indices, and  *)
(* exactly the hops processed so far whose result held the entry's text.   *)
C9_SourcesOrderedSet ==
    \A t \in Turns : \A i \in 1..Len(all_context_chunks[t]) :
        LET entry == all_context_chunks[t][i]
        IN  /\ \A a, b \in 1..Len(entry.sources) :
                   a < b => entry.sources[a] < entry.sources[b]
            /\ Range(entry.sources) = HopsReturning(t, entry.text)

(* C10: interleaved turns do not share state: the queries, dict, context   *)
(* and reply of a turn are what its own message and its own external       *)
(* responses give, and no chunk of another turn enters its context.        *)
RECURSIVE AggregateAlone(_, _, _)
AggregateAlone(chunks, results, hop) ==
    IF hop > Len(results) THEN chunks
    ELSE AggregateAlone(AddNodes(chunks, results[hop], hop), results, hop + 1)

C10_TurnsIndependent ==
    \A t \in Turns :
        /\ PastGeneration(t) =>
              /\ all_queries[t] =
                     <<normalize_query(message[t])>>
                     \o (IF generated[t] # <<>> THEN ParseQueries(generated[t][1])
                                                ELSE <<>>)
              /\ all_context_chunks[t] = AggregateAlone(<<>>, retrieved[t], 1)
        /\ \A i \in 1..Len(all_context_chunks[t]) :
               all_context_chunks[t][i].text \in RetrievedTexts(t)
        /\ Prompted(t) =>
              /\ context[t] = ContextOf(AggregateAlone(<<>>, retrieved[t], 1))
              /\ user_prompt[t] = UserPrompt(message[t], context[t])
        /\ pc[t] = "returned" => final_answer[t] \in Answers

C10_Witness ==
    /\ \A t \in Turns : pc[t] = "await_synthesis" /\ context[t] # <<>>
    /\ \E t, u \in Turns :
           /\ context[t] # context[u]
           /\ message[t] # message[u]
           /\ RetrievedTexts(t) \cap RetrievedTexts(u) = {}

====
